---- MODULE Spec2Model ----
(***************************************************************************)
(* A model of app.py, a Streamlit page that answers questions about one    *)
(* person's profile.  One script run is: load the profile through the      *)
(* process-wide cache, halt if it is None, seed the transcript, handle a   *)
(* chat input (compose the prompt, POST it to the generation endpoint,     *)
(* append the answer), draw the sections and the "Reload Personal Info"    *)
(* button.  The page is re-run from the top on every user event.           *)
(*                                                                         *)
(* Python values: None is [tag |-> "None"], a decoded JSON object is       *)
(* [tag |-> "dict", d |-> <record>], where a key the object lacks is a     *)
(* field the record lacks (a subscript of it raises KeyError).  Text is    *)
(* text: prompts are built character for character as the f-strings do.    *)
(***************************************************************************)
EXTENDS Integers, Sequences, FiniteSets, TLC

VARIABLES
    file,           \* content of personal_info.json on disk (environment)
    cache,          \* st.cache_data entry of load_personal_info: Miss or its result
    personal_info,  \* module global personal_info of the current script run
    messages,       \* st.session_state.messages; <<>> while the key is absent
    pc,             \* the session: load (a script run is due), idle, awaiting (POST sent)
    rendered,       \* widgets the last script run reached and drew
    request,        \* the HTTP request in flight, or NoRequest
    response,       \* what get_gemma_response returned to the last turn, or NoResult
    script_error,   \* the uncaught exception that ended the last script run, or NoError
    invalidated,    \* history: no load since process start or since the last cache clear
    didRead,        \* history: the last call of load_personal_info opened the file
    turnStart,      \* history: Len(messages) when this run's chat input arrived, else 0
    turnPosts,      \* history: POSTs this run's turn issued
    sent            \* history: every prompt posted, with what it was composed from

vars == <<file, cache, personal_info, messages, pc, rendered, request,
          response, script_error, invalidated, didRead, turnStart, turnPosts, sent>>

\* ------------------------------------------------------------------ bounds
\* user turns of the session explored
MaxTurns == 2
\* projects of a generated profile
MaxProjects == 2

\* --------------------------------------------------------- configuration
PERSONAL_INFO_FILE == "personal_info.json"
OLLAMA_API_URL == "http://localhost:11434/api/generate"
GEMMA_MODEL_NAME == "gemma3"

\* ------------------------------------------------------------ Python values
None == [tag |-> "None"]
Dict(d) == [tag |-> "dict", d |-> d]
Str(s) == [tag |-> "str", s |-> s]
Miss == [tag |-> "miss"]
NoRequest == [tag |-> "none"]
NoResult == [tag |-> "none"]
NoError == [exc |-> "none", in |-> "none"]
Error(e, where) == [exc |-> e, in |-> where]

HasKey(v, k) == v.tag = "dict" /\ k \in DOMAIN v.d
\* Python truthiness of None, a dict, a str
Truthy(v) ==
    CASE v.tag = "None" -> FALSE
      [] v.tag = "dict" -> DOMAIN v.d # {}
      [] v.tag = "str"  -> v.s # ""
      [] OTHER          -> TRUE

\* ', '.join(seq)
RECURSIVE Join(_, _)
Join(sep, seq) ==
    IF seq = <<>> THEN ""
    ELSE IF Len(seq) = 1 THEN seq[1]
    ELSE seq[1] \o sep \o Join(sep, Tail(seq))

\* ------------------------------------------------------- profile documents
RequiredKeys ==
    {"name", "occupation", "about_me", "skills", "education", "contact_email",
     "linkedin_profile", "github_profile", "portfolio_website", "projects"}
ScalarKeys == RequiredKeys \ {"skills", "projects"}

ProfileA ==
    [name |-> "Asha Rao", occupation |-> "Data Engineer",
     about_me |-> "I build pipelines.", skills |-> <<"Python", "SQL">>,
     education |-> "BSc Pune", contact_email |-> "asha@a.example",
     linkedin_profile |-> "https://in.example/asha",
     github_profile |-> "https://gh.example/asha",
     portfolio_website |-> "https://asha.example",
     projects |-> << [name |-> "Client Project: Widget", description |-> "billing app"],
                     [name |-> "Widget", description |-> "toy parser"],
                     [name |-> "CLIENT PROJECT X", description |-> "audit tool"] >>]
ProfileB ==
    [name |-> "Ben Lee", occupation |-> "Designer",
     about_me |-> "Makes posters.", skills |-> <<"Figma">>,
     education |-> "MA Leeds", contact_email |-> "ben@b.example",
     linkedin_profile |-> "https://in.example/ben",
     github_profile |-> "", portfolio_website |-> "",
     projects |-> << [name |-> "Zine", description |-> "monthly print"],
                     [name |-> "a client project for Acme", description |-> "logo set"] >>]
Without(d, keys) == [k \in (DOMAIN d) \ keys |-> d[k]]

\* What personal_info.json can hold: no file, a file open() cannot read, text that
\* is not JSON, or a JSON object (complete, or lacking keys).
Absent == [kind |-> "absent"]
Unreadable == [kind |-> "unreadable"]
Malformed == [kind |-> "malformed"]
Json(v) == [kind |-> "json", value |-> v]
FileContents ==
    {Absent, Unreadable, Malformed,
     Json(Dict(ProfileA)), Json(Dict(ProfileB)),
     Json(Dict(Without(ProfileA, {"occupation"}))),
     Json(Dict(Without(ProfileA, RequiredKeys \ {"name"}))),
     Json(Dict(Without(ProfileA, RequiredKeys)))}

\* ------------------------------------------------------ load_personal_info
\* The body of load_personal_info: the value returned and the st.error shown.
load_body(f) ==
    IF f.kind = "absent" THEN [ret |-> None, error |-> "NotFound"]
    ELSE IF f.kind = "malformed" THEN [ret |-> None, error |-> "ParseError"]
    ELSE IF f.kind = "unreadable" THEN [ret |-> None, error |-> "Unexpected"]
    ELSE [ret |-> f.value, error |-> "none"]

\* a cache that is never consulted
load_personal_info_uncached(c, f) ==
    [result |-> load_body(f), cache |-> load_body(f), read |-> TRUE]

\* a cache that keeps successful results only
load_personal_info_skip_none(c, f) ==
    IF c = Miss
    THEN [result |-> load_body(f), read |-> TRUE,
          cache |-> IF load_body(f).ret = None THEN Miss ELSE load_body(f)]
    ELSE [result |-> c, cache |-> c, read |-> FALSE]

\* @st.cache_data around it: a stored result (None included, with the st.error it
\* replays) is returned without running the body.
load_personal_info(c, f) ==
    IF c = Miss
    THEN [result |-> load_body(f), cache |-> load_body(f), read |-> TRUE]
    ELSE [result |-> c, cache |-> c, read |-> FALSE]

\* --------------------------------------------------- create_agentic_prompt
Raise(e) == [tag |-> "raise", exc |-> e]
Return(v) == [tag |-> "return", value |-> v]

identity_statement(d) ==
    "You are an AI chatbot assistant of " \o d.name \o ". You were created by " \o
    d.name \o " to provide accurate and helpful information about his " \o
    "professional background, skills, education, and projects. Always " \o
    "introduce yourself with this identity if asked 'who are you?' or " \o
    "similar questions."

system_intro_head(d) ==
    identity_statement(d) \o "\n" \o
    "\n" \o
    "    Here is key information about " \o d.name \o " for you to reference:\n" \o
    "    - **Name:** " \o d.name \o "\n" \o
    "    - **Occupation:** " \o d.occupation \o "\n" \o
    "    - **About Me:** " \o d.about_me \o "\n" \o
    "    - **Skills:** " \o Join(", ", d.skills) \o "\n" \o
    "    - **Education:** " \o d.education \o "\n" \o
    "    - **Contact Email:** " \o d.contact_email \o "\n" \o
    "    - **LinkedIn:** " \o d.linkedin_profile \o "\n" \o
    "    - **GitHub:** " \o d.github_profile \o "\n" \o
    "    - **Portfolio Website:** " \o d.portfolio_website \o "\n" \o
    "\n" \o
    "    **Projects:**\n" \o
    "    "

project_line(project) ==
    "- **" \o project.name \o "**: " \o project.description \o "\n"

\* the for loop of lines 96-97 over projects[i..]
RECURSIVE project_lines(_)
project_lines(projects) ==
    IF projects = <<>> THEN ""
    ELSE project_line(Head(projects)) \o project_lines(Tail(projects))

navigation_instructions ==
    "\n" \o
    "    If the user asks to go to a specific section (e.g., \"show me your " \o
    "skills\", \"go to projects\", \"tell me about your education\", \"take me to" \o
    " contact info\", \"about you\"), respond by providing a clickable Markdow" \o
    "n link to that section. Do NOT just give text instructions; provide a " \o
    "link.\n" \o
    "\n" \o
    "    Here are the available sections and their corresponding anchor lin" \o
    "ks:\n" \o
    "    - About Jash: [About Jash](#about-jash)\n" \o
    "    - My Skills: [My Skills](#my-skills)\n" \o
    "    - My Education: [My Education](#my-education)\n" \o
    "    - My Projects: [My Projects](#my-projects)\n" \o
    "    - Contact Jash: [Contact Jash](#contact-jash)\n" \o
    "\n" \o
    "    Example response for skills: \"You can find a detailed list of Jash" \o
    "'s skills here: [My Skills](#my-skills)\"\n" \o
    "    Example response for projects: \"Sure, check out Jash's projects he" \o
    "re: [My Projects](#my-projects)\"\n" \o
    "    Example response for contact: \"You can reach Jash via the contact " \o
    "section: [Contact Jash](#contact-jash)\"\n" \o
    "\n" \o
    "    Only provide an anchor link if the user explicitly asks to \"go to\"" \o
    ", \"show\", \"take me to\" a section, or if their query is clearly a navig" \o
    "ation request. If the question is about the content of a section, summ" \o
    "arize the content first, and then offer the link for more details.\n" \o
    "    "

system_general_instructions ==
    "\n" \o
    "    When a user asks about specific details related to Jash Kothari, u" \o
    "se the provided information directly and factually.\n" \o
    "    If the question is a general knowledge question not related to Jas" \o
    "h Kothari, answer it to the best of your ability using your general kn" \o
    "owledge, but maintain your persona as Jash Kothari's assistant.\n" \o
    "    Be polite, concise, and helpful. Do not invent information about J" \o
    "ash Kothari that is not explicitly provided. If you cannot find the an" \o
    "swer in the provided information, simply state that you don't have tha" \o
    "t specific detail about Jash Kothari.\n" \o
    "    "

\* every key the f-strings subscript, in a dict that has 'projects' also every
\* project's name and description
PromptKeysPresent(info) ==
    /\ \A k \in RequiredKeys : HasKey(info, k)
    /\ \A i \in 1..Len(info.d.projects) :
          {"name", "description"} \subseteq DOMAIN info.d.projects[i]

\* a composer that also quotes the turn before
create_agentic_prompt_with_history(info, user_query) ==
    IF ~Truthy(info)
    THEN Return("I apologize, but my personal information is not available at the moment.")
    ELSE IF ~PromptKeysPresent(info) THEN Raise("KeyError")
    ELSE Return(system_intro_head(info.d) \o project_lines(info.d.projects) \o "\n" \o
                navigation_instructions \o "\n" \o
                system_general_instructions \o "\n\nUser Query: " \o user_query \o
                (IF Len(messages) > 1
                 THEN "\nEarlier: " \o messages[Len(messages)].content ELSE ""))

create_agentic_prompt(info, user_query) ==
    IF ~Truthy(info)
    THEN Return("I apologize, but my personal information is not available at the moment.")
    ELSE IF ~PromptKeysPresent(info) THEN Raise("KeyError")
    ELSE Return(system_intro_head(info.d) \o project_lines(info.d.projects) \o "\n" \o
                navigation_instructions \o "\n" \o
                system_general_instructions \o "\n\nUser Query: " \o user_query)

\* ------------------------------------------------------ get_gemma_response
\* What the POST can come to.  requests raises ConnectionError for every failure
\* at the level of the connection, whether it was never made (refused, no such
\* host) or was made and lost before a reply (reset, closed by the server); it
\* raises another RequestException for the rest (too many redirects, a body cut
\* short), and raise_for_status raises HTTPError for a 4xx or 5xx status.
\* A 2xx body that is not JSON makes response.json()
\* raise the library's JSONDecodeError, which is a RequestException only from
\* requests 2.27 on and a plain ValueError before: the source pins no version.
Outcomes ==
    {[kind |-> "connection_error", cause |-> "refused"],
     [kind |-> "connection_error", cause |-> "closed_without_reply"],
     [kind |-> "status"], [kind |-> "request_exception"],
     [kind |-> "not_json", caught |-> TRUE], [kind |-> "not_json", caught |-> FALSE],
     [kind |-> "json", body |-> Dict(<<>>)],
     [kind |-> "json", body |-> Dict([response |-> Str("")])],
     [kind |-> "json", body |-> Dict([response |-> Str("Asha builds pipelines.")])]}

Result(v, e) == [tag |-> "return", value |-> v, error |-> e]
Uncaught(e) == [tag |-> "raise", exc |-> e, error |-> "none"]

get_gemma_response(o) ==
    IF o.kind = "connection_error" THEN Result(None, "Unreachable")
    ELSE IF o.kind \in {"status", "request_exception"} THEN Result(None, "RequestError")
    ELSE IF o.kind = "not_json"
    THEN IF o.caught THEN Result(None, "RequestError") ELSE Uncaught("ValueError")
    ELSE IF HasKey(o.body, "response") THEN Result(o.body.d.response, "none")
    ELSE Uncaught("KeyError")

\* the JSON body of the POST
post_data(prompt, model_name) ==
    [url |-> OLLAMA_API_URL, model |-> model_name, prompt |-> prompt, stream |-> FALSE]

\* ------------------------------------------------------------- the page
greeting(d) ==
    [role |-> "assistant",
     content |-> "Hello! I am a chatbot assistant of " \o d.name \o
                 ". I was created by " \o d.name \o " to help you learn more " \o
                 "about his professional background. How can I assist you today?"]

\* a seeding without the test of line 136
init_messages_always(msgs, d) == <<greeting(d)>>

\* if "messages" not in st.session_state: seed it
init_messages(msgs, d) == IF msgs = <<>> THEN <<greeting(d)>> ELSE msgs

\* every key lines 161-196 subscript
SectionKeysPresent(info) ==
    /\ \A k \in RequiredKeys \ {"name", "occupation"} : HasKey(info, k)
    /\ \A i \in 1..Len(info.d.projects) :
          {"name", "description"} \subseteq DOMAIN info.d.projects[i]

\* st.cache_data.clear() leaves every entry missing
st_cache_data_clear_noop(c) == c
st_cache_data_clear(c) == Miss

Queries == {"hi", "what client projects?"}
NumUser(msgs) == Cardinality({i \in 1..Len(msgs) : msgs[i].role = "user"})

\* Lines 30-140 of a script run: load through the cache, st.stop() on None, the
\* page title (which subscripts 'name'), the seeding of the transcript.
Top(c, f, msgs) ==
    LET L == load_personal_info(c, f)
        info == L.result.ret
        halt == IF info = None THEN "stop"
                ELSE IF ~HasKey(info, "name") THEN "KeyError"
                ELSE "none"
    IN [cache |-> L.cache, info |-> info, read |-> L.read, halt |-> halt,
        error |-> IF halt = "KeyError" THEN Error("KeyError", "page") ELSE NoError,
        messages |-> IF halt = "none" THEN init_messages(msgs, info.d) ELSE msgs]

\* Lines 161-202 of a script run that got past the chat input: the widgets drawn
\* and the exception, if a section subscripts a key the profile lacks.
Page(info) ==
    IF SectionKeysPresent(info)
    THEN [rendered |-> {"chat_input", "reload"}, error |-> NoError]
    ELSE [rendered |-> {"chat_input"}, error |-> Error("KeyError", "sections")]

Init == /\ file \in FileContents
        /\ cache = Miss /\ personal_info = None /\ messages = <<>>
        /\ pc = "load" /\ rendered = {} /\ request = NoRequest
        /\ response = NoResult /\ script_error = NoError /\ invalidated = TRUE
        /\ didRead = FALSE /\ turnStart = 0 /\ turnPosts = 0 /\ sent = {}

\* the file is edited, created or removed outside the app
FileChange(f) ==
    /\ f # file
    /\ file' = f
    /\ UNCHANGED <<cache, personal_info, messages, pc, rendered, request, response,
                   script_error, invalidated, didRead, turnStart, turnPosts, sent>>

\* a script run that serves no widget event, top to bottom
PlainRun ==
    LET T == Top(cache, file, messages)
    IN /\ cache' = T.cache /\ personal_info' = T.info /\ messages' = T.messages
       /\ didRead' = T.read /\ invalidated' = FALSE
       /\ IF T.halt # "none"
          THEN rendered' = {} /\ script_error' = T.error
          ELSE rendered' = Page(T.info).rendered /\ script_error' = Page(T.info).error
       /\ pc' = "idle" /\ response' = NoResult /\ turnStart' = 0 /\ turnPosts' = 0
       /\ UNCHANGED <<file, request, sent>>

\* the first run of the session, and the run st.rerun() starts
Load == pc = "load" /\ PlainRun

\* the user re-runs the page
Rerun == pc = "idle" /\ PlainRun

\* st.chat_input returns q: the run from the top through line 154's POST
ChatInput(q) ==
    /\ pc = "idle" /\ "chat_input" \in rendered /\ NumUser(messages) < MaxTurns
    /\ LET T == Top(cache, file, messages)
           p == create_agentic_prompt(T.info, q)
       IN /\ cache' = T.cache /\ personal_info' = T.info
          /\ didRead' = T.read /\ invalidated' = FALSE /\ response' = NoResult
          /\ IF T.halt # "none"
             THEN /\ pc' = "idle" /\ rendered' = {} /\ script_error' = T.error
                  /\ messages' = T.messages /\ turnStart' = 0 /\ turnPosts' = 0
                  /\ UNCHANGED <<request, sent>>
             ELSE /\ rendered' = {"chat_input"}
                  /\ messages' = Append(T.messages, [role |-> "user", content |-> q])
                  /\ turnStart' = Len(T.messages)
                  /\ IF p.tag = "raise"
                     THEN /\ pc' = "idle" /\ turnPosts' = 0
                          /\ script_error' = Error(p.exc, "create_agentic_prompt")
                          /\ UNCHANGED <<request, sent>>
                     ELSE /\ pc' = "awaiting" /\ turnPosts' = 1
                          /\ script_error' = NoError
                          /\ request' = post_data(p.value, GEMMA_MODEL_NAME)
                          /\ sent' = sent \cup {[info |-> T.info, query |-> q,
                                                 history |-> T.messages,
                                                 prompt |-> p.value]}
    /\ UNCHANGED file

\* lines 59-67 once the endpoint answers or fails, then lines 156-205
Respond(o) ==
    /\ pc = "awaiting"
    /\ LET r == get_gemma_response(o)
       IN /\ request' = NoRequest /\ pc' = "idle"
          /\ IF r.tag = "raise"
             THEN /\ response' = NoResult
                  /\ script_error' = Error(r.exc, "get_gemma_response")
                  /\ UNCHANGED <<messages, rendered>>
             ELSE /\ response' = r
                  /\ messages' = IF Truthy(r.value)
                                 THEN Append(messages, [role |-> "assistant",
                                                        content |-> r.value.s])
                                 ELSE messages
                  /\ rendered' = Page(personal_info).rendered
                  /\ script_error' = Page(personal_info).error
    /\ UNCHANGED <<file, cache, personal_info, invalidated, didRead, turnStart,
                   turnPosts, sent>>

\* "Reload Personal Info" is clicked: the run from the top to line 204, where the
\* cache is cleared and st.rerun() abandons the run
ReloadClick ==
    /\ pc = "idle" /\ "reload" \in rendered
    /\ LET T == Top(cache, file, messages)
       IN /\ personal_info' = T.info /\ messages' = T.messages
          /\ didRead' = T.read /\ response' = NoResult
          /\ IF T.halt # "none"
             THEN /\ pc' = "idle" /\ rendered' = {} /\ script_error' = T.error
                  /\ cache' = T.cache /\ invalidated' = FALSE
             ELSE IF Page(T.info).error # NoError
             THEN /\ pc' = "idle" /\ rendered' = Page(T.info).rendered
                  /\ script_error' = Page(T.info).error
                  /\ cache' = T.cache /\ invalidated' = FALSE
             ELSE /\ pc' = "load" /\ rendered' = Page(T.info).rendered
                  /\ script_error' = NoError
                  /\ cache' = st_cache_data_clear(T.cache) /\ invalidated' = TRUE
    /\ turnStart' = 0 /\ turnPosts' = 0
    /\ UNCHANGED <<file, request, sent>>

Next ==
    \/ \E f \in FileContents : FileChange(f)
    \/ Load
    \/ Rerun
    \/ \E q \in Queries : ChatInput(q)
    \/ \E o \in Outcomes : Respond(o)
    \/ ReloadClick

Spec == Init /\ [][Next]_vars

\* A session whose profile is already loaded and drawn, for every profile whose
\* project list is built from ProjectPool; only chat turns are taken.
ProjectPool ==
    {[name |-> n, description |-> d] :
        n \in {"Client Project: Widget", "Widget", "CLIENT PROJECT X", "my client project"},
        d \in {"billing app", "toy parser"}}
ProjectLists == UNION {[1..n -> ProjectPool] : n \in 0..MaxProjects}
InitCompose ==
    /\ \E ps \in ProjectLists :
          /\ file = Json(Dict([ProfileA EXCEPT !.projects = ps]))
          /\ cache = load_body(file) /\ personal_info = cache.ret
          /\ messages = <<greeting(personal_info.d)>>
    /\ pc = "idle" /\ rendered = {"chat_input", "reload"} /\ request = NoRequest
    /\ response = NoResult /\ script_error = NoError /\ invalidated = FALSE
    /\ didRead = TRUE /\ turnStart = 0 /\ turnPosts = 0 /\ sent = {}
NextCompose == \E q \in Queries : ChatInput(q)
SpecCompose == InitCompose /\ [][NextCompose]_vars

\* ------------------------------------------------------------- text helpers
Contains(s, t) == \E i \in 1..(Len(s) - Len(t) + 1) : SubSeq(s, i, i + Len(t) - 1) = t
\* least index >= from at which t occurs in s, or 0
Find(s, t, from) ==
    LET hits == {i \in from..(Len(s) - Len(t) + 1) : SubSeq(s, i, i + Len(t) - 1) = t}
    IN IF hits = {} THEN 0 ELSE CHOOSE i \in hits : \A j \in hits : i <= j
\* s cut at every "\n"
SplitLines(s) ==
    LET nl == {i \in 1..Len(s) : SubSeq(s, i, i) = "\n"}
        starts == {1} \cup {i + 1 : i \in nl}
        Nth(k) == CHOOSE i \in starts : Cardinality({j \in starts : j < i}) = k - 1
        End(i) == IF \E j \in nl : j >= i
                  THEN (CHOOSE j \in nl : j >= i /\ \A m \in nl : m >= i => j <= m) - 1
                  ELSE Len(s)
    IN [k \in 1..Cardinality(starts) |-> SubSeq(s, Nth(k), End(Nth(k)))]
IsPrefix(a, b) == Len(a) <= Len(b) /\ SubSeq(b, 1, Len(a)) = a
UpperCase == "ABCDEFGHIJKLMNOPQRSTUVWXYZ"
LowerCase == "abcdefghijklmnopqrstuvwxyz"
LowerChar(c) ==
    IF \E i \in 1..Len(UpperCase) : SubSeq(UpperCase, i, i) = c
    THEN LET i == CHOOSE i \in 1..Len(UpperCase) : SubSeq(UpperCase, i, i) = c
         IN SubSeq(LowerCase, i, i)
    ELSE c
RECURSIVE Lower(_)
Lower(s) == IF s = "" THEN "" ELSE LowerChar(SubSeq(s, 1, 1)) \o Lower(SubSeq(s, 2, Len(s)))

\* the lines of a prompt between "**Projects:**" and the blank line that ends them
ProjectBlock(prompt) ==
    LET marker == "**Projects:**\n    "
        from == Find(prompt, marker, 1) + Len(marker)
        to == Find(prompt, "\n\n", from)
    IN IF to <= from THEN <<>> ELSE SplitLines(SubSeq(prompt, from, to - 1))

\* the category the specification derives from a project's name
Category(name) ==
    IF Contains(Lower(name), "client project") THEN "Client Project" ELSE "Personal Project"

Complete(info) ==
    /\ info.tag = "dict" /\ RequiredKeys \subseteq DOMAIN info.d
    /\ \A i \in 1..Len(info.d.projects) :
          {"name", "description"} \subseteq DOMAIN info.d.projects[i]
IsGreeting(e) == \E P \in {ProfileA, ProfileB} : e = greeting(P)
ChatOffered == "chat_input" \in rendered \/ pc = "awaiting" \/ request # NoRequest
TurnOver == pc = "idle" /\ turnStart > 0

\* every text a profile document holds
ValuesOf(d) ==
    {d[k] : k \in ScalarKeys \cap DOMAIN d}
    \cup (IF "skills" \in DOMAIN d THEN {d.skills[i] : i \in 1..Len(d.skills)} ELSE {})
    \cup (IF "projects" \in DOMAIN d
          THEN {d.projects[i].name : i \in 1..Len(d.projects)}
               \cup {d.projects[i].description : i \in 1..Len(d.projects)}
          ELSE {})
\* the fixed text that follows the project lines, up to and including the query
FixedTail(q) ==
    "\n" \o navigation_instructions \o "\n" \o system_general_instructions \o
    "\n\nUser Query: " \o q
Foreign(info) == ((ValuesOf(ProfileA) \cup ValuesOf(ProfileB)) \ ValuesOf(info.d)) \ {""}
\* the prompt ends in the fixed text and, before it, names nothing of another profile
NoResidue(prompt, info, q) ==
    /\ Len(prompt) > Len(FixedTail(q))
    /\ SubSeq(prompt, Len(prompt) - Len(FixedTail(q)) + 1, Len(prompt)) = FixedTail(q)
    /\ \A v \in Foreign(info) :
          ~Contains(SubSeq(prompt, 1, Len(prompt) - Len(FixedTail(q))), v)
\* the fixed text itself names nothing of any profile
FixedTextClean ==
    \A v \in (ValuesOf(ProfileA) \cup ValuesOf(ProfileB)) \ {""} :
        \A q \in Queries : ~Contains(FixedTail(q), v)
LastQuery == messages[Len(messages)].content

\* ------------------------------------------------------------------ claims

\* C1: a turn whose generation call returns a response text, whatever the text,
\* appends the user entry and then the assistant entry; a turn whose call fails
\* appends the user entry alone.
C1_TurnAppends ==
    (TurnOver /\ turnPosts = 1) =>
        IF response # NoResult /\ response.value.tag = "str"
        THEN /\ Len(messages) = turnStart + 2
             /\ messages[turnStart + 1].role = "user"
             /\ messages[turnStart + 2] = [role |-> "assistant",
                                           content |-> response.value.s]
        ELSE /\ Len(messages) = turnStart + 1
             /\ messages[turnStart + 1].role = "user"

\* C2: the transcript starts with the one synthetic greeting and only grows at
\* its end: every step leaves the earlier transcript a prefix of the later one.
C2_AppendOnly ==
    [][/\ IsPrefix(messages, messages')
       /\ messages' # <<>> =>
             /\ IsGreeting(messages'[1])
             /\ \A i \in 2..Len(messages') : ~IsGreeting(messages'[i])]_vars
C2_Witness ==
    /\ pc = "idle" /\ Len(messages) = 4
    /\ messages[1] = greeting(ProfileA) /\ personal_info = Dict(ProfileB)
    /\ messages[3].role = "user" /\ messages[4].role = "assistant"

\* C3: wherever chat is offered (the input is drawn, a prompt is composed, a
\* request is out) the profile in use is a loaded document with every required
\* field.
C3_ChatNeedsCompleteProfile == ChatOffered => Complete(personal_info)

\* C4: a Reload leaves the transcript as it was and replaces the profile by what
\* the file holds when it is read again; the profile changes at no other time,
\* and a prompt composed from it names nothing of another profile.
C4_ReloadReplacesProfile ==
    /\ [](pc = "load" /\ messages = <<>> => FixedTextClean)
    /\ [](pc = "awaiting" => NoResidue(request.prompt, personal_info, LastQuery))
    /\ [][/\ pc # "load" => personal_info' = personal_info
          /\ (pc = "load" /\ file' = file) => personal_info' = load_body(file).ret
          /\ (pc = "load" \/ pc' = "load") /\ messages # <<>> => messages' = messages]_vars
C4_Witness ==
    /\ pc = "awaiting" /\ personal_info = Dict(ProfileB)
    /\ messages[1] = greeting(ProfileA) /\ Len(messages) >= 4
    /\ \E a \in sent : a.info = Dict(ProfileA)

\* C5: whatever the POST comes to, get_gemma_response hands its caller the
\* response text, the Unreachable failure or the RequestError failure, and no
\* exception leaves it.
C5_ThreeOutcomes ==
    /\ script_error.in # "get_gemma_response"
    /\ (TurnOver /\ turnPosts = 1 /\ script_error = NoError) =>
          /\ response # NoResult
          /\ \/ response.value.tag = "str" /\ response.error = "none"
             \/ response.value = None /\ response.error \in {"Unreachable", "RequestError"}

\* C6: the prompt has one line per project, in profile order, and each line
\* carries the category derived from the project's name ("Client Project" when
\* the name holds "client project" in any case, "Personal Project" otherwise).
C6_LinesCarryCategory ==
    pc = "awaiting" =>
        LET lines == ProjectBlock(request.prompt)
            projects == personal_info.d.projects
        IN /\ Len(lines) = Len(projects)
           /\ \A i \in 1..Len(projects) : Contains(lines[i], Category(projects[i].name))

\* C7: two prompts posted under the same profile for the same user message are
\* the same text, whatever the transcripts were when they were composed.
C7_PromptIgnoresTranscript ==
    \A a \in sent : \A b \in sent :
        (a.info = b.info /\ a.query = b.query) => a.prompt = b.prompt
C7_Witness ==
    \E a \in sent : \E b \in sent :
        /\ a.info = b.info /\ a.query = b.query
        /\ Len(a.history) = 1 /\ Len(b.history) = 3

\* C8: a call of load_personal_info opens the file exactly when no call was made
\* since the process started or since the cache was last cleared; then it returns
\* what the file holds at that moment, and otherwise what the cache holds.
C8_ReadsOnlyAfterInvalidate ==
    [][(pc \in {"load", "idle"} /\ file' = file) =>
          /\ didRead' = invalidated
          /\ personal_info' = IF invalidated THEN load_body(file).ret ELSE cache.ret]_vars
C8_Witness ==
    /\ pc = "idle" /\ ~didRead /\ ~invalidated
    /\ messages # <<>> /\ messages[1] = greeting(ProfileA)
    /\ personal_info = Dict(ProfileB) /\ file = Json(Dict(ProfileA))

\* C9: a turn posts exactly one generation request, posted after the user entry
\* is appended, and the session is awaiting exactly while that request is out.
C9_OnePostPerTurn ==
    /\ TurnOver => turnPosts = 1
    /\ (pc = "awaiting") = (request # NoRequest)
    /\ pc = "awaiting" =>
          /\ turnPosts = 1 /\ Len(messages) = turnStart + 1
          /\ messages[Len(messages)].role = "user"

\* C10: once a load has failed, no step taken inside the app brings a profile
\* back: the profile stays None, neither the chat input nor the Reload button is
\* drawn, and the transcript stays as it was, whatever the file becomes.
C10_FailedLoadAbsorbing ==
    [][(pc = "idle" /\ personal_info = None) =>
          /\ personal_info' = None /\ pc' = "idle"
          /\ rendered' = {} /\ messages' = messages]_vars
C10_Witness ==
    /\ pc = "idle" /\ personal_info = None /\ ~didRead
    /\ file = Json(Dict(ProfileA)) /\ messages # <<>>
====
